---- MODULE Spec2Model ----
(***************************************************************************)
(* Quota Excess Respondent Finder (streamlit_app.py).                      *)
(*                                                                         *)
(* The pipeline of main(): read the two uploaded tables, validate the      *)
(* universe (quota) table, validate the data (respondent) table, run       *)
(* process_files, display the two result tables; any exception ends the    *)
(* run in st.error.                                                        *)
(*                                                                         *)
(* Encoding.  Countries, industries and revenue-range names are small      *)
(* integers (their order is the order pandas sorts the group keys by).     *)
(* A quota q is stored as the integer q * QuotaDenominator, so that        *)
(* fractional quotas (2.5) are values of the model; excess is stored on    *)
(* the same scale.  A fulfillment percentage p is stored as p * 100, an    *)
(* integer after round(2).  NaN is the missing value, Text a non-numeric   *)
(* cell of a quota column.                                                 *)
(***************************************************************************)
EXTENDS Integers, Sequences, FiniteSets

VARIABLES pc, data_df, universe_df, revenue_ranges, merged_df,
          excess_respondents, fulfillment_df, error, calls, shown

vars == <<pc, data_df, universe_df, revenue_ranges, merged_df,
          excess_respondents, fulfillment_df, error, calls, shown>>

\* ------------------------------------------------------------------ bounds
\* Largest number of respondent rows of an uploaded data file.
MaxRows == 3
\* Quotas are multiples of 1/QuotaDenominator.
QuotaDenominator == 2

\* ------------------------------------------------------------ value domains
NaN == 0 - 1
Text == 0 - 2

Countries == {1, 2}
Industries == {1}
\* Revenue Range cells of the data file: missing, or the name of a column
\* some universe file has.
RangeValues == {NaN, 1, 2}
\* A Revenue Range name that is a column of no universe file.
UnknownRange == 2 + 1
\* Numeric quota cells: missing, 0, 1, 2 and a fractional quota just above 2.
QuotaCells == {NaN, 0, QuotaDenominator, 2 * QuotaDenominator,
               2 * QuotaDenominator + 1}
\* (rows, revenue-range columns) shapes of the universe files read.
UniverseShapes == {<<1, <<1>> >>, <<2, <<1>> >>, <<1, <<1, 2>> >>}

Range(s) == {s[i] : i \in DOMAIN s}

\* ------------------------------------------------------------ uploaded files
DataRequired == <<"responseid", "Country", "Industry", "Revenue Range">>
UniverseRequired == <<"Industry", "Country">>

NoTable == [columns |-> {}, rows |-> <<>>]

DataRow(id, c, i, r) ==
    [responseid |-> id, Country |-> c, Industry |-> i, RevenueRange |-> r]

\* A respondent table with all four columns and n rows, ids n..1 top to
\* bottom (newest respondent first), row k in segment seg[k].
DataTable(n, seg) ==
    [columns |-> Range(DataRequired),
     rows |-> [k \in 1..n |->
                 DataRow(n + 1 - k, seg[k][1], seg[k][2], seg[k][3])]]

\* The segments of the respondent rows: country 1 with a missing range or
\* either range, and country 2 in range 1.
DataSegments == {<<1, 1, NaN>>, <<1, 1, 1>>, <<1, 1, 2>>, <<2, 1, 1>>}

\* Respondent tables of up to MaxRows rows, any segment per row.
FullDataTables ==
    UNION { { DataTable(n, seg) : seg \in [1..n -> DataSegments] }
            : n \in 1..MaxRows }

\* Respondent tables with a Revenue Range no universe file has.
UnknownRangeTables ==
    UNION { { DataTable(n, seg)
              : seg \in { f \in [1..n -> {1} \X {1} \X
                                         (RangeValues \cup {UnknownRange})] :
                          \E k \in 1..n : f[k][3] = UnknownRange } }
            : n \in 1..2 }

\* Respondent tables that lack required columns.
ShortDataTables ==
    { [columns |-> cols, rows |-> <<DataRow(1, 1, 1, 1)>>]
      : cols \in { Range(DataRequired) \ {"responseid"},
                   Range(DataRequired) \ {"Country", "Revenue Range"},
                   {} } }

DataTables == FullDataTables \cup UnknownRangeTables \cup ShortDataTables

UniverseRow(c, i, q) == [Country |-> c, Industry |-> i, quota |-> q]

\* The quota tables of shape sh with both id columns, keys from keys and
\* cells from cells.
UniverseTablesOf(sh, keys, cells) ==
    { [columns |-> Range(UniverseRequired), revenue |-> sh[2],
       rows |-> [k \in 1..sh[1] |-> UniverseRow(key[k][1], key[k][2], q[k])]]
      : key \in [1..sh[1] -> keys],
        q \in [1..sh[1] -> [Range(sh[2]) -> cells]] }

\* Quota tables whose cells are all numeric or missing.
NumericUniverseTables ==
    UNION { UniverseTablesOf(sh, Countries \X Industries, QuotaCells)
            : sh \in UniverseShapes }

\* Quota tables with a text cell.
TextUniverseTables ==
    UNION { { u \in UniverseTablesOf(sh, {<<1, 1>>}, {Text, QuotaDenominator}) :
              \E k \in DOMAIN u.rows : \E c \in Range(sh[2]) :
                 u.rows[k].quota[c] = Text }
            : sh \in UniverseShapes }

\* Quota tables that lack an id column or have no revenue-range column.
ShortUniverseTables ==
    { [columns |-> cols, revenue |-> <<1>>,
       rows |-> <<UniverseRow(1, 1, [r \in {1} |-> QuotaDenominator])>>]
      : cols \in {{"Industry"}, {"Country"}, {}} }
    \cup
    { [columns |-> Range(UniverseRequired), revenue |-> <<>>,
       rows |-> <<UniverseRow(1, 1, <<>>)>>] }

UniverseTables ==
    NumericUniverseTables \cup TextUniverseTables \cup ShortUniverseTables

\* ---------------------------------------------------------------- helpers
NoError == [kind |-> "none", items |-> <<>>, expected |-> <<>>]

RECURSIVE Insert(_, _)
Insert(x, s) ==
    IF s = <<>> THEN <<x>>
    ELSE IF x <= Head(s) THEN <<x>> \o s
    ELSE <<Head(s)>> \o Insert(x, Tail(s))

\* Mutant of sorted: the ids are left in row order.
sorted_RowOrder(s) == s

\* sorted(list(x)), ascending.
RECURSIVE sorted(_)
sorted(s) == IF s = <<>> THEN <<>> ELSE Insert(Head(s), sorted(Tail(s)))

\* Series.dropna().unique(): the non-missing values, in order of first
\* appearance.
RECURSIVE unique(_)
unique(s) ==
    IF s = <<>> THEN <<>>
    ELSE LET init == unique(SubSeq(s, 1, Len(s) - 1))
             x == s[Len(s)]
         IN  IF x = NaN \/ x \in Range(init) THEN init ELSE Append(init, x)

\* ------------------------------------------------------------- validation
\* pd.api.types.is_numeric_dtype(df[col]): no cell of the column is text.
is_numeric_dtype(df, col) ==
    \A k \in DOMAIN df.rows : df.rows[k].quota[col] # Text

\* validate_universe_file: the error raised (NoError when it returns) and
\* the revenue-range list it returns.
validate_universe_file(df) ==
    LET missing_columns ==
            SelectSeq(UniverseRequired, LAMBDA col : col \notin df.columns)
        ranges == df.revenue
        non_numeric ==
            SelectSeq(ranges, LAMBDA col : ~is_numeric_dtype(df, col))
    IN  IF missing_columns # <<>>
        THEN [error |-> [kind |-> "universe_missing_columns",
                         items |-> missing_columns, expected |-> <<>>],
              revenue_ranges |-> <<>>]
        ELSE IF ranges = <<>>
        THEN [error |-> [kind |-> "universe_no_revenue_range",
                         items |-> <<>>, expected |-> <<>>],
              revenue_ranges |-> <<>>]
        ELSE IF non_numeric # <<>>
        THEN \* the loop raises at the first non-numeric column
             [error |-> [kind |-> "universe_non_numeric",
                         items |-> <<Head(non_numeric)>>, expected |-> <<>>],
              revenue_ranges |-> <<>>]
        ELSE [error |-> NoError, revenue_ranges |-> ranges]

\* validate_data_file: the error raised (NoError when it returns).
validate_data_file(df, ranges) ==
    LET missing_columns ==
            SelectSeq(DataRequired, LAMBDA col : col \notin df.columns)
        column == [k \in DOMAIN df.rows |-> df.rows[k].RevenueRange]
        invalid_revenue_ranges ==
            SelectSeq(unique(column), LAMBDA r : r \notin Range(ranges))
    IN  IF missing_columns # <<>>
        THEN [kind |-> "data_missing_columns",
              items |-> missing_columns, expected |-> <<>>]
        ELSE IF invalid_revenue_ranges # <<>>
        THEN [kind |-> "data_invalid_revenue_range",
              items |-> invalid_revenue_ranges, expected |-> ranges]
        ELSE NoError

\* ------------------------------------------------------------ process_files
Key(row) == <<row.Country, row.Industry, row.RevenueRange>>

\* Lexicographic order of group keys.
KeyLess(a, b) ==
    \/ a[1] < b[1]
    \/ a[1] = b[1] /\ a[2] < b[2]
    \/ a[1] = b[1] /\ a[2] = b[2] /\ a[3] < b[3]

RECURSIVE SortedKeys(_)
SortedKeys(S) ==
    IF S = {} THEN <<>>
    ELSE LET m == CHOOSE k \in S : \A o \in S : o = k \/ KeyLess(k, o)
         IN  <<m>> \o SortedKeys(S \ {m})

\* The responseid column of the rows of one group, in row order.
GroupIds(rows, key) ==
    LET members == SelectSeq(rows, LAMBDA row : Key(row) = key)
    IN  [k \in DOMAIN members |-> members[k].responseid]

\* Step 1: data_df.groupby([...]).agg(count, response_ids).reset_index().
\* groupby drops the rows with a missing key and sorts the groups by key.
grouped_data(df) ==
    LET keys == { Key(df.rows[k]) : k \in DOMAIN df.rows }
        present == { key \in keys : NaN \notin Range(key) }
        order == SortedKeys(present)
    IN  [g \in DOMAIN order |->
           [Country |-> order[g][1], Industry |-> order[g][2],
            RevenueRange |-> order[g][3],
            count |-> Len(GroupIds(df.rows, order[g])),
            response_ids |-> sorted(GroupIds(df.rows, order[g]))]]

\* Step 2: universe_df.melt(...): column by column, the rows in order.
RECURSIVE universe_df_melted(_, _)
universe_df_melted(df, ranges) ==
    IF ranges = <<>> THEN <<>>
    ELSE [k \in DOMAIN df.rows |->
            [Country |-> df.rows[k].Country, Industry |-> df.rows[k].Industry,
             RevenueRange |-> Head(ranges),
             quota |-> df.rows[k].quota[Head(ranges)]]]
         \o universe_df_melted(df, Tail(ranges))

\* Mutant of UnmatchedQuota: the missing quota is filled with 0.
UnmatchedQuota_Zero == 0 * QuotaDenominator

\* The quota the left join gives a group with no matching row.
UnmatchedQuota == NaN

\* Step 3: grouped_data.merge(universe_df_melted, how='left'): the groups in
\* order, each once per matching quota row, or once with a missing quota.
RECURSIVE merge(_, _)
merge(grouped, melted) ==
    IF grouped = <<>> THEN <<>>
    ELSE LET g == Head(grouped)
             matches == SelectSeq(melted, LAMBDA m : Key(m) = Key(g))
             withQuota(q) ==
                 [Country |-> g.Country, Industry |-> g.Industry,
                  RevenueRange |-> g.RevenueRange, count |-> g.count,
                  response_ids |-> g.response_ids, quota |-> q]
         IN  (IF matches = <<>> THEN << withQuota(UnmatchedQuota) >>
              ELSE [k \in DOMAIN matches |-> withQuota(matches[k].quota)])
             \o merge(Tail(grouped), melted)

\* Step 4, merged_df['count'] - merged_df['quota'], then clip(lower=0);
\* missing when the quota is missing.  On the quota scale.
excess(row) ==
    IF row.quota = NaN THEN NaN
    ELSE IF row.count * QuotaDenominator - row.quota < 0 THEN 0
    ELSE row.count * QuotaDenominator - row.quota

\* A percentage before rounding: the fraction <<numerator, denominator>>.
NaNPercentage == <<NaN, 1>>
Cap == <<100, 1>>

\* Step 4, (count / quota * 100).clip(upper=100): missing for a missing
\* quota; count / 0 is +inf, which clip brings to 100.
fulfillment_percentage(row) ==
    IF row.quota = NaN THEN NaNPercentage
    ELSE IF row.quota = 0 THEN Cap
    ELSE IF row.count * QuotaDenominator * 100 > 100 * row.quota THEN Cap
    ELSE <<row.count * QuotaDenominator * 100, row.quota>>

\* Series.round(2) of a percentage, in hundredths (round half to even).
round2(p) ==
    LET a == p[1] * 100
        b == p[2]
        q == a \div b
        r == a % b
    IN  IF 2 * r < b THEN q
        ELSE IF 2 * r > b THEN q + 1
        ELSE IF q % 2 = 0 THEN q ELSE q + 1

\* Step 5, the test row['excess'] > 0: false for a missing excess.
ExcessPositive(x) == x # NaN /\ x > 0

\* int(row['excess']): truncation; int() of a missing value raises.
IntRaises(x) == x = NaN
int(x) == x \div QuotaDenominator

\* Step 5, row['response_ids'][-k:].  -0 is 0, so k = 0 slices the whole
\* list; k beyond the length does too.
LastSlice(ids, k) ==
    IF k = 0 \/ k >= Len(ids) THEN ids
    ELSE SubSeq(ids, Len(ids) - k + 1, Len(ids))

\* Step 5: the rows appended for one row of merged_df.
ExcessRows(row) ==
    IF ExcessPositive(excess(row))
    THEN LET excess_ids == LastSlice(row.response_ids, int(excess(row)))
         IN  [k \in DOMAIN excess_ids |->
                [Country |-> row.Country, Industry |-> row.Industry,
                 RevenueRange |-> row.RevenueRange, Quota |-> row.quota,
                 Count |-> row.count, Excess |-> excess(row),
                 ResponseID |-> excess_ids[k]]]
    ELSE <<>>

RECURSIVE ExcessLoop(_)
ExcessLoop(merged) ==
    IF merged = <<>> THEN <<>>
    ELSE ExcessRows(Head(merged)) \o ExcessLoop(Tail(merged))

\* Mutant of QuotaNotNa: segments with quota 0 are filtered out as well.
QuotaNotNa_DropsZero(row) == row.quota # NaN /\ row.quota # 0

\* Step 6, merged_df[merged_df['quota'].notna()].
QuotaNotNa(row) == row.quota # NaN

\* Step 6: a row of the fulfillment table (columns selected and renamed),
\* its percentage rounded.
FulfillmentRow(row) ==
    [Country |-> row.Country, Industry |-> row.Industry,
     RevenueRange |-> row.RevenueRange, Count |-> row.count,
     Quota |-> row.quota,
     FulfillmentPercentage |-> round2(fulfillment_percentage(row))]

\* Mutant of SortsBefore: ascending=True.
SortsBefore_Ascending(x, y) ==
    x.FulfillmentPercentage <= y.FulfillmentPercentage

\* Where sort_values(ascending=False) puts x relative to y.
SortsBefore(x, y) == x.FulfillmentPercentage >= y.FulfillmentPercentage

RECURSIVE InsertRow(_, _)
InsertRow(x, s) ==
    IF s = <<>> THEN <<x>>
    ELSE IF SortsBefore(x, Head(s)) THEN <<x>> \o s
    ELSE <<Head(s)>> \o InsertRow(x, Tail(s))

\* Step 6, sort_values(by='fulfillment_percentage', ascending=False); ties
\* keep their order.
RECURSIVE sort_values(_)
sort_values(s) ==
    IF s = <<>> THEN <<>> ELSE InsertRow(Head(s), sort_values(Tail(s)))

\* process_files: what it returns, or that it raised (any exception inside
\* is re-raised as ValueError).
process_files(data, universe, ranges) ==
    LET merged == merge(grouped_data(data), universe_df_melted(universe, ranges))
        kept == SelectSeq(merged, QuotaNotNa)
    IN  [merged_df |-> merged,
         raised |-> \E k \in DOMAIN merged :
                       /\ ExcessPositive(excess(merged[k]))
                       /\ IntRaises(excess(merged[k])),
         excess_respondents |-> ExcessLoop(merged),
         fulfillment_df |->
             sort_values([k \in DOMAIN kept |-> FulfillmentRow(kept[k])])]

\* ------------------------------------------------------------------ main()
Call(fn, ok) == [fn |-> fn, ok |-> ok]

Init ==
    /\ pc = "uploaded"
    /\ data_df = NoTable
    /\ universe_df = NoTable
    /\ revenue_ranges = <<>>
    /\ merged_df = <<>>
    /\ excess_respondents = <<>>
    /\ fulfillment_df = <<>>
    /\ error = NoError
    /\ calls = <<>>
    /\ shown = {}

\* read_file(data_file); read_file(universe_file): both tables parsed.
ReadFiles ==
    /\ pc = "uploaded"
    /\ \E d \in DataTables, u \in UniverseTables :
          /\ data_df' = d
          /\ universe_df' = u
    /\ pc' = "read"
    /\ calls' = Append(calls, Call("read_file", TRUE))
    /\ UNCHANGED <<revenue_ranges, merged_df, excess_respondents,
                   fulfillment_df, error, shown>>

\* read_file raises (unsupported format, unreadable file): st.error.
ReadFilesError ==
    /\ pc = "uploaded"
    /\ pc' = "error"
    /\ error' = [kind |-> "read_file", items |-> <<>>, expected |-> <<>>]
    /\ calls' = Append(calls, Call("read_file", FALSE))
    /\ UNCHANGED <<data_df, universe_df, revenue_ranges, merged_df,
                   excess_respondents, fulfillment_df, shown>>

\* revenue_ranges = validate_universe_file(universe_df)
ValidateUniverseFile ==
    /\ pc = "read"
    /\ LET res == validate_universe_file(universe_df)
       IN  /\ calls' = Append(calls, Call("validate_universe_file",
                                          res.error = NoError))
           /\ IF res.error = NoError
              THEN /\ revenue_ranges' = res.revenue_ranges
                   /\ pc' = "universe_valid"
                   /\ UNCHANGED error
              ELSE /\ error' = res.error
                   /\ pc' = "error"
                   /\ UNCHANGED revenue_ranges
    /\ UNCHANGED <<data_df, universe_df, merged_df, excess_respondents,
                   fulfillment_df, shown>>

\* Mutant of ValidateDataFile: the error is reported and the run goes on.
ValidateDataFile_GoesOn ==
    /\ pc = "universe_valid"
    /\ LET err == validate_data_file(data_df, revenue_ranges)
       IN  /\ calls' = Append(calls, Call("validate_data_file", err = NoError))
           /\ error' = err
           /\ pc' = "validated"
    /\ UNCHANGED <<data_df, universe_df, revenue_ranges, merged_df,
                   excess_respondents, fulfillment_df, shown>>

\* validate_data_file(data_df, revenue_ranges)
ValidateDataFile ==
    /\ pc = "universe_valid"
    /\ LET err == validate_data_file(data_df, revenue_ranges)
       IN  /\ calls' = Append(calls, Call("validate_data_file", err = NoError))
           /\ IF err = NoError
              THEN /\ pc' = "validated"
                   /\ UNCHANGED error
              ELSE /\ error' = err
                   /\ pc' = "error"
    /\ UNCHANGED <<data_df, universe_df, revenue_ranges, merged_df,
                   excess_respondents, fulfillment_df, shown>>

\* excess_respondents, fulfillment_df = process_files(...)
ProcessFiles ==
    /\ pc = "validated"
    /\ LET res == process_files(data_df, universe_df, revenue_ranges)
       IN  /\ calls' = Append(calls, Call("process_files", ~res.raised))
           /\ IF res.raised
              THEN /\ error' = [kind |-> "processing", items |-> <<>>,
                                expected |-> <<>>]
                   /\ pc' = "error"
                   /\ UNCHANGED <<merged_df, excess_respondents, fulfillment_df>>
              ELSE /\ merged_df' = res.merged_df
                   /\ excess_respondents' = res.excess_respondents
                   /\ fulfillment_df' = res.fulfillment_df
                   /\ pc' = "processed"
                   /\ UNCHANGED error
    /\ UNCHANGED <<data_df, universe_df, revenue_ranges, shown>>

\* The Results section: the excess table (or the "no excess" note) and the
\* fulfillment table, each with its download button.
DisplayResults ==
    /\ pc = "processed"
    /\ shown' = (IF excess_respondents # <<>> THEN {"excess_df"} ELSE {"info"})
                \cup {"fulfillment_df"}
    /\ pc' = "displayed"
    /\ UNCHANGED <<data_df, universe_df, revenue_ranges, merged_df,
                   excess_respondents, fulfillment_df, error, calls>>

Next ==
    \/ ReadFiles
    \/ ReadFilesError
    \/ ValidateUniverseFile
    \/ ValidateDataFile
    \/ ProcessFiles
    \/ DisplayResults

Spec == Init /\ [][Next]_vars

\* ------------------------------------------------------------- vocabulary
Processed == pc \in {"processed", "displayed"}

Called(fn) == {i \in DOMAIN calls : calls[i].fn = fn}

\* The merged table of this run's process_files call.
Merged ==
    merge(grouped_data(data_df), universe_df_melted(universe_df, revenue_ranges))

\* The rows of a table that belong to one segment.
RowsOf(table, key) == {k \in DOMAIN table : Key(table[k]) = key}

\* A group of the respondent data with no row in the reshaped quota table.
Unmatched(g) ==
    RowsOf(universe_df_melted(universe_df, revenue_ranges), Key(g)) = {}

RECURSIVE SumCount(_)
SumCount(groups) ==
    IF groups = <<>> THEN 0 ELSE Head(groups).count + SumCount(Tail(groups))

RowOrders(n) ==
    {f \in [1..n -> 1..n] : \A a, b \in 1..n : a # b => f[a] # f[b]}

\* The respondent table with its rows reordered by f.
Reordered(df, f) ==
    [df EXCEPT !.rows = [k \in DOMAIN df.rows |-> df.rows[f[k]]]]

\* ------------------------------------------------------------------ claims

\* C1: for every row of the merged table whose excess k = count - quota is
\* positive, exactly k excess rows are emitted for its segment, their ids are
\* the trailing k entries of the segment's ascending id list, and each
\* carries the segment's quota, count and excess.
C1_ExactlyExcessLargestIds ==
    Processed =>
      \A m \in DOMAIN merged_df :
        LET row == merged_df[m]
            k == row.count * QuotaDenominator - row.quota
            emitted == RowsOf(excess_respondents, Key(row))
            n == Cardinality(emitted)
        IN  (row.quota # NaN /\ k > 0) =>
              /\ n * QuotaDenominator = k
              /\ {excess_respondents[e].ResponseID : e \in emitted}
                   = {row.response_ids[j] : j \in (row.count - n + 1)..row.count}
              /\ \A e \in emitted :
                   /\ excess_respondents[e].Quota = row.quota
                   /\ excess_respondents[e].Count = row.count
                   /\ excess_respondents[e].Excess = k

\* C2: validate_data_file runs only after validate_universe_file returned
\* the revenue-range list, process_files only after both validations
\* succeeded, and a failed validation ends the run in the error state with
\* process_files never run and no output table produced or shown.
C2_ValidationBeforeProcessing ==
    /\ \A i \in Called("validate_data_file") :
         /\ \E j \in 1..(i - 1) : calls[j] = Call("validate_universe_file", TRUE)
         /\ validate_universe_file(universe_df).error = NoError
         /\ revenue_ranges = universe_df.revenue
    /\ \A i \in Called("process_files") :
         /\ \E j \in 1..(i - 1) : calls[j] = Call("validate_universe_file", TRUE)
         /\ \E j \in 1..(i - 1) : calls[j] = Call("validate_data_file", TRUE)
         /\ validate_data_file(data_df, revenue_ranges) = NoError
    /\ (\/ validate_universe_file(universe_df).error # NoError
           /\ Called("validate_universe_file") # {}
        \/ validate_data_file(data_df, revenue_ranges) # NoError
           /\ Called("validate_data_file") # {})
       => /\ pc = "error"
          /\ Called("process_files") = {}
          /\ excess_respondents = <<>>
          /\ fulfillment_df = <<>>
          /\ shown = {}

\* C2 witness: the data file failed validation after the universe file
\* passed, and the run is in the error state.
C2_Witness ==
    /\ pc = "error"
    /\ Called("validate_data_file") # {}
    /\ error.kind = "data_invalid_revenue_range"

\* C3 as claimed: no fulfillment row is reported for a segment whose quota
\* is zero or missing.
C3_ZeroOrNullQuotaExcluded ==
    Processed =>
      \A f \in DOMAIN fulfillment_df : fulfillment_df[f].Quota \notin {0, NaN}

\* C3 amended: process_files does not fail on a zero or missing quota; a
\* merged row with a missing quota has no fulfillment row, and a merged row
\* with quota 0 is reported with its percentage capped at 100.
C3_NullExcludedZeroCapped ==
    /\ error.kind = "processing" =>
         \A m \in DOMAIN Merged : Merged[m].quota \notin {0, NaN}
    /\ Processed =>
         /\ \A f \in DOMAIN fulfillment_df :
              /\ fulfillment_df[f].Quota # NaN
              /\ fulfillment_df[f].Quota = 0
                   => fulfillment_df[f].FulfillmentPercentage = 100 * 100
         /\ Len(fulfillment_df)
              = Cardinality({m \in DOMAIN merged_df : merged_df[m].quota # NaN})
         /\ \A m \in DOMAIN merged_df :
              merged_df[m].quota = 0 =>
                \E f \in RowsOf(fulfillment_df, Key(merged_df[m])) :
                   fulfillment_df[f].Quota = 0

\* C3 witness: a run processed a segment with quota 0 and a segment with a
\* missing quota.
C3_Witness ==
    /\ Processed
    /\ \E m \in DOMAIN merged_df : merged_df[m].quota = 0
    /\ \E m \in DOMAIN merged_df : merged_df[m].quota = NaN

\* C4: a segment of the respondent data with no row in the reshaped quota
\* table yields no fulfillment row and no excess row, and process_files
\* returns normally.
C4_UnmatchedSegmentNoRows ==
    Called("process_files") # {} =>
      LET groups == grouped_data(data_df)
          melted == universe_df_melted(universe_df, revenue_ranges)
      IN  \A g \in DOMAIN groups :
            RowsOf(melted, Key(groups[g])) = {} =>
              /\ Processed
              /\ RowsOf(excess_respondents, Key(groups[g])) = {}
              /\ RowsOf(fulfillment_df, Key(groups[g])) = {}

\* C4 witness: a processed run with an unmatched segment of two or more
\* respondents beside a matched segment that is reported.
C4_Witness ==
    /\ Processed
    /\ \E g \in Range(grouped_data(data_df)) : Unmatched(g) /\ g.count >= 2
    /\ fulfillment_df # <<>>

\* C5: a validation error names every offending item of its rule.
C5_ErrorsEnumerateEveryOffender ==
    /\ error.kind = "universe_missing_columns" =>
         Range(error.items) = Range(UniverseRequired) \ universe_df.columns
    /\ error.kind = "universe_non_numeric" =>
         Range(error.items) =
           {c \in Range(universe_df.revenue) : ~is_numeric_dtype(universe_df, c)}
    /\ error.kind = "data_missing_columns" =>
         Range(error.items) = Range(DataRequired) \ data_df.columns
    /\ error.kind = "data_invalid_revenue_range" =>
         /\ Range(error.items) =
              {data_df.rows[k].RevenueRange : k \in DOMAIN data_df.rows}
                \ (Range(revenue_ranges) \cup {NaN})
         /\ error.expected = revenue_ranges

\* C6: process_files gives the same excess rows (as a set) and the same
\* fulfillment table for every reordering of the respondent rows, the
\* original order included.
C6_RowOrderIndependent ==
    Processed =>
      \A f \in RowOrders(Len(data_df.rows)) :
        LET again == process_files(Reordered(data_df, f), universe_df,
                                   revenue_ranges)
        IN  /\ Range(again.excess_respondents) = Range(excess_respondents)
            /\ again.fulfillment_df = fulfillment_df

\* C6 witness: a processed run in which a segment of several respondents
\* has some, not all, of them flagged.
C6_Witness ==
    /\ Processed
    /\ \E m \in DOMAIN merged_df :
         LET n == Cardinality(RowsOf(excess_respondents, Key(merged_df[m])))
         IN  0 < n /\ n < merged_df[m].count

\* C7: the fulfillment table is in non-increasing order of its rounded
\* percentage.
C7_FulfillmentDescending ==
    Processed =>
      \A i, j \in DOMAIN fulfillment_df :
        i < j => fulfillment_df[i].FulfillmentPercentage
                   >= fulfillment_df[j].FulfillmentPercentage

\* C7 witness: a fulfillment table whose first row was merged after its
\* second and has the larger percentage (the sort moved it up).
C7_Witness ==
    /\ Processed
    /\ Len(fulfillment_df) >= 2
    /\ fulfillment_df[1].FulfillmentPercentage
         > fulfillment_df[2].FulfillmentPercentage
    /\ KeyLess(Key(fulfillment_df[2]), Key(fulfillment_df[1]))

\* C8: with unique respondent ids, each id is in at most one excess row and
\* each segment in at most one fulfillment row.
C8_OneRowPerRespondentAndSegment ==
    Processed =>
      /\ \A a, b \in DOMAIN excess_respondents :
           excess_respondents[a].ResponseID = excess_respondents[b].ResponseID
             => a = b
      /\ \A a, b \in DOMAIN fulfillment_df :
           Key(fulfillment_df[a]) = Key(fulfillment_df[b]) => a = b

\* C9: for a segment with one (non-negative, numeric) quota the number of
\* excess rows never exceeds max(0, count - quota).
C9_ExcessRowsWithinExcess ==
    Processed =>
      \A m \in DOMAIN merged_df :
        LET row == merged_df[m]
            n == Cardinality(RowsOf(excess_respondents, Key(row)))
        IN  (row.quota # NaN /\ RowsOf(merged_df, Key(row)) = {m}) =>
              n * QuotaDenominator <= excess(row)

\* C10: every row of an accepted respondent table is counted in exactly one
\* segment aggregate.
C10_EveryAcceptedRowAggregated ==
    (\E i \in Called("validate_data_file") : calls[i].ok) =>
      LET groups == grouped_data(data_df)
      IN  /\ SumCount(groups) = Len(data_df.rows)
          /\ \A k \in DOMAIN data_df.rows :
               Cardinality({g \in DOMAIN groups :
                              data_df.rows[k].responseid
                                \in Range(groups[g].response_ids)}) = 1

====
